---- MODULE Spec2Model ----
(***************************************************************************)
(* A model of willie/serve: the diagnostic log filter, the mode bootstrap, *)
(* the readiness poller, the request dispatcher, the Markdown renderer and *)
(* the shutdown path.  The repository holds the program in three revisions *)
(* that the properties below speak about:                                  *)
(*   "md"   src/tshello.go:180-559  (Markdown rendering, remembered port,  *)
(*                                   readiness timeout, graceful shutdown) *)
(*   "srv"  src/serve.go:1-187      (readiness timeout, graceful shutdown) *)
(*   "stub" src/serve.go:189-361    (local identity stub, no timeout, no   *)
(*                                   shutdown handler)                     *)
(* Text is modelled as sequences of one-character strings, time in         *)
(* milliseconds.                                                           *)
(***************************************************************************)
EXTENDS Integers, Sequences, FiniteSets, TLC

Variants == {"md", "srv", "stub"}

(***************************************************************************)
(* Text                                                                    *)
(***************************************************************************)
\* strings.HasPrefix
HasPrefix(s, p) ==
    /\ Len(p) <= Len(s)
    /\ \A j \in 1..Len(p) : s[j] = p[j]

\* strings.HasSuffix
HasSuffix(s, p) ==
    /\ Len(p) <= Len(s)
    /\ \A j \in 1..Len(p) : s[Len(s) - Len(p) + j] = p[j]

\* strings.Contains
Contains(s, p) ==
    \E i \in 0..(Len(s) - Len(p)) : \A j \in 1..Len(p) : s[i + j] = p[j]

\* strings.TrimPrefix
TrimPrefix(s, p) ==
    IF HasPrefix(s, p) THEN SubSeq(s, Len(p) + 1, Len(s)) ELSE s

\* The prefix the standard logger puts before a message (date and time, 20 characters).
Stamp ==
    <<"2","0","0","6","/","0","1","/","0","2"," ","1","5",":","0","4",":","0",
      "5"," ">>

\* log.Printf / log.Print: one Write of the stamped message ending in a newline.
LogLine(msg) == Stamp \o msg \o <<"\n">>

\* The text that marks an "authentication required" line.
AuthPromptText ==
    <<"T","o"," ","s","t","a","r","t"," ","t","h","i","s"," ","t","s","n","e",
      "t"," ","s","e","r","v","e","r">>
\* The rest of the overlay library's authentication prompt.
AuthPromptRest ==
    <<","," ","r","e","s","t","a","r","t"," ","w","i","t","h"," ","T","S","_",
      "A","U","T","H","K","E","Y"," ","s","e","t",","," ","o","r"," ","g",
      "o"," ","t","o",":"," ","h","t","t","p","s",":","/","/","l","o","g",
      "i","n",".","t","a","i","l","s","c","a","l","e",".","c","o","m","/",
      "a","/","1">>
\* Allow-list pattern of "md": the startup confirmation.
AtHttpText ==
    <<" ","a","t"," ","h","t","t","p">>
\* Allow-list pattern of "srv" and "stub": the startup confirmation.
ServingAtText ==
    <<"s","e","r","v","i","n","g"," ","."," ","a","t">>
\* Allow-list pattern of "srv" and "stub": the access-log line.
AccessText ==
    <<"a","c","c","e","s","s",":"," ">>
\* Allow-list pattern: a bind failure.
BindText ==
    <<"b","i","n","d",":"," ">>
\* Allow-list pattern: an error marker.
ErrorText ==
    <<"e","r","r","o","r">>
\* Allow-list pattern: a failure marker.
FailText ==
    <<"f","a","i","l">>
\* Prefix of the access-log line of "md" for an unresolved identity.
UnknownMark ==
    <<"?"," ">>
\* What an access-log line of "md" with a resolved identity contains.
ParenSlash ==
    <<")"," ","/">>
\* The shutdown notice.
ShutdownMsg ==
    <<"s","h","u","t","t","i","n","g"," ","d","o","w","n",".",".",".">>
\* The readiness-timeout diagnostic.
TimeoutMsg ==
    <<"t","i","m","e","o","u","t"," ","w","a","i","t","i","n","g"," ","f","o",
      "r"," ","t","a","i","l","s","c","a","l","e"," ","t","o"," ","s","t",
      "a","r","t">>
\* A line of the overlay library that matches no pattern.
NoiseMsg ==
    <<"m","a","g","i","c","s","o","c","k",":"," ","d","e","r","p","-","1"," ",
      "c","o","n","n","e","c","t","e","d">>
\* An error line that also carries the authentication text.
ErrorAuthMsg ==
    <<"e","r","r","o","r",":"," ","T","o"," ","s","t","a","r","t"," ","t","h",
      "i","s"," ","t","s","n","e","t"," ","s","e","r","v","e","r">>

(***************************************************************************)
(* Bounds of the model                                                     *)
(***************************************************************************)
\* How many times the clock of the filter specification advances.
MaxTicks == 3

\* How many elements a request path of the renderer specification has.
MaxSegs == 3

\* How many connections the server specification handles at a time.
MaxConns == 1

\* How many goroutines write to the filter at a time, and how many calls
\* they make in all, in the specification of concurrent writes.
MaxWriters == 2
MaxCalls == 3

(***************************************************************************)
(* State                                                                   *)
(***************************************************************************)
VARIABLES
    variant,    \* which revision of the program runs
    now,        \* the clock, in milliseconds
    auth,       \* logFilter.auth
    lastAuth,   \* logFilter.lastAuth
    last,       \* the last call of logFilter.Write: its input and its result
    everShown,  \* observed: an authentication line was handed to stderr
    shownAt,    \* observed: when the last such line was handed to stderr
    ticks,      \* how often the clock advanced
    rq,         \* renderer specification: the request
    rs,         \* renderer specification: what the handler did with it
    pc,         \* main: "boot", "serving", "exited" or "fatal"
    local,      \* the local flag
    explicit,   \* the port flag's value, or NoFlag
    ln,         \* the listener: "none", "plain" or "tls"
    whoIs,      \* the identity resolver: "nil", "stub" or "provider"
    portFile,   \* the port file of the state directory, or NoFile
    port,       \* the port of the listen address
    bootLog,    \* what main logged during startup
    backend,    \* the provider's backend state, as lc.Status reports it
    pollPc,     \* readiness poller: "off", "status", "wait" or "done"
    pollT,      \* milliseconds since the poller made its context
    pollSaw,    \* what the poller's last lc.Status call returned
    pollLog,    \* what the poller logged
    sd,         \* shutdown goroutine: "waiting", "draining", "drained",
                \* "expired", or "killed" where no handler is installed
    drainT,     \* milliseconds since srv.Shutdown was called
    sdLog,      \* what the shutdown goroutine logged
    conns,      \* per connection: the request being handled
    run,        \* startup specification: the last startup
    okPort,     \* observed: the port of the last successful Local startup
    okWrote,    \* observed: whether that startup's port-file write succeeded
    wr,         \* per writing goroutine: its call of logFilter.Write
    mu,         \* logFilter.mu: the goroutine that holds it, or 0
    shown,      \* observed: the times authentication lines were passed on
    calls       \* how many concurrent calls were made

filterVars == <<now, auth, lastAuth, last, everShown, shownAt, ticks>>
renderVars == <<rq, rs>>
bootVars == <<pc, local, explicit, ln, whoIs, portFile, port, bootLog>>
pollVars == <<backend, pollPc, pollT, pollSaw, pollLog>>
shutVars == <<sd, drainT, sdLog>>
mainVars == <<bootVars, pollVars, shutVars, conns>>
runVars == <<run, okPort, okWrote>>
lockVars == <<wr, mu, shown, calls>>

vars == <<variant, filterVars, renderVars, mainVars, runVars, lockVars>>

(***************************************************************************)
(* Diagnostic filter: logFilter.Write                                      *)
(***************************************************************************)
\* 1*time.Minute, the throttle interval.
Minute == 60000

\* The zero time.Time a new logFilter holds in lastAuth.
ZeroTime == -1

\* time.Since saturates at the largest Duration (about 292 years) when its
\* argument is the zero Time; any value above every interval stands for it.
MaxDuration == 2147483647

\* time.Since(t0), read at time t.
Since(t0, t) == IF t0 = ZeroTime THEN MaxDuration ELSE t - t0

\* The access-log test of "md": the message after the 20-character stamp
\* starts with "/", starts with "? " or contains ") /".
AccessPattern(s) ==
    /\ Len(s) > 20
    /\ LET msg == SubSeq(s, 21, Len(s)) IN
         \/ msg[1] = "/"
         \/ HasPrefix(msg, UnknownMark)
         \/ Contains(msg, ParenSlash)

\* The allow-list of logFilter.Write, per revision.
AllowListed(v, s) ==
    IF v = "md"
    THEN \/ AccessPattern(s)
         \/ Contains(s, AtHttpText)
         \/ Contains(s, BindText)
         \/ Contains(s, ErrorText)
         \/ Contains(s, FailText)
    ELSE \/ Contains(s, ServingAtText)
         \/ Contains(s, AccessText)
         \/ Contains(s, BindText)
         \/ Contains(s, ErrorText)
         \/ Contains(s, FailText)

\* The test for an "authentication required" line.
IsAuthPrompt(s) == Contains(s, AuthPromptText)

ThrottleOpen_ge(a, la, t) == ~a \/ Since(la, t) >= Minute

\* The throttle test: !f.auth || time.Since(f.lastAuth) > 1*time.Minute.
ThrottleOpen(a, la, t) == ~a \/ Since(la, t) > Minute

\* What a write to the diagnostic output stream can do.
StderrOutcomes == {"ok", "short", "fail"}

\* os.Stderr.Write(p): all of p and no error, or fewer bytes and an error.
StderrWrite(p, o) ==
    CASE o = "ok"    -> [n |-> Len(p), err |-> "nil", wrote |-> <<p>>]
      [] o = "short" -> [n |-> Len(p) \div 2, err |-> "short write",
                         wrote |-> <<SubSeq(p, 1, Len(p) \div 2)>>]
      [] o = "fail"  -> [n |-> 0, err |-> "write error", wrote |-> <<>>]

Suppress_echo(p) == [n |-> Len(p), err |-> "nil", wrote |-> <<p>>]

Suppress_zero(p) == [n |-> 0, err |-> "nil", wrote |-> <<>>]

\* return len(p), nil: the line is dropped.
Suppress(p) == [n |-> Len(p), err |-> "nil", wrote |-> <<>>]

Write_restamp(v, f, p, t, o) ==
    IF AllowListed(v, p)
    THEN [auth |-> f.auth, lastAuth |-> f.lastAuth, class |-> "allow",
          handed |-> TRUE, ret |-> StderrWrite(p, o)]
    ELSE IF IsAuthPrompt(p)
    THEN IF ThrottleOpen(f.auth, f.lastAuth, t)
         THEN [auth |-> TRUE, lastAuth |-> t, class |-> "auth",
               handed |-> TRUE, ret |-> StderrWrite(p, o)]
         ELSE [auth |-> TRUE, lastAuth |-> t, class |-> "auth",
               handed |-> FALSE, ret |-> Suppress(p)]
    ELSE [auth |-> f.auth, lastAuth |-> f.lastAuth, class |-> "other",
          handed |-> FALSE, ret |-> Suppress(p)]

Write_authfirst(v, f, p, t, o) ==
    IF IsAuthPrompt(p)
    THEN IF ThrottleOpen(f.auth, f.lastAuth, t)
         THEN [auth |-> TRUE, lastAuth |-> t, class |-> "auth",
               handed |-> TRUE, ret |-> StderrWrite(p, o)]
         ELSE [auth |-> f.auth, lastAuth |-> f.lastAuth, class |-> "auth",
               handed |-> FALSE, ret |-> Suppress(p)]
    ELSE IF AllowListed(v, p)
    THEN [auth |-> f.auth, lastAuth |-> f.lastAuth, class |-> "allow",
          handed |-> TRUE, ret |-> StderrWrite(p, o)]
    ELSE [auth |-> f.auth, lastAuth |-> f.lastAuth, class |-> "other",
          handed |-> FALSE, ret |-> Suppress(p)]

\* logFilter.Write(p) at time t on the filter state f = [auth, lastAuth],
\* with o what the output stream does if it is written to.  The result
\* holds the new filter state, the values returned and the bytes written.
Write(v, f, p, t, o) ==
    IF AllowListed(v, p)
    THEN [auth |-> f.auth, lastAuth |-> f.lastAuth, class |-> "allow",
          handed |-> TRUE, ret |-> StderrWrite(p, o)]
    ELSE IF IsAuthPrompt(p)
    THEN IF ThrottleOpen(f.auth, f.lastAuth, t)
         THEN [auth |-> TRUE, lastAuth |-> t, class |-> "auth",
               handed |-> TRUE, ret |-> StderrWrite(p, o)]
         ELSE [auth |-> f.auth, lastAuth |-> f.lastAuth, class |-> "auth",
               handed |-> FALSE, ret |-> Suppress(p)]
    ELSE [auth |-> f.auth, lastAuth |-> f.lastAuth, class |-> "other",
          handed |-> FALSE, ret |-> Suppress(p)]

(***************************************************************************)
(* Paths and files                                                         *)
(***************************************************************************)
Dot == <<".">>
DotDot == <<".", ".">>
Slash == <<"/">>

\* The Markdown extension.
MdSuffix ==
    <<".","m","d">>

\* The working directory of the process: the served root http.Dir(".") and
\* the directory a relative name given to os.ReadFile is resolved in.
Root ==
    <<"/","r">>

\* strings.ToLower, on the letters the model's paths use.
LowerChar(c) ==
    CASE c = "M" -> "m"
      [] c = "D" -> "d"
      [] c = "X" -> "x"
      [] OTHER -> c
ToLower(s) == [i \in 1..Len(s) |-> LowerChar(s[i])]

\* The elements of a path: what stands between its slashes.
RECURSIVE SplitFrom(_, _, _)
SplitFrom(s, i, cur) ==
    IF i > Len(s) THEN <<cur>>
    ELSE IF s[i] = "/" THEN <<cur>> \o SplitFrom(s, i + 1, <<>>)
    ELSE SplitFrom(s, i + 1, Append(cur, s[i]))
Split(s) == SplitFrom(s, 1, <<>>)

RECURSIVE Join(_)
Join(segs) ==
    IF Len(segs) = 0 THEN <<>>
    ELSE IF Len(segs) = 1 THEN segs[1]
    ELSE segs[1] \o Slash \o Join(Tail(segs))

\* The element rules of Clean: drop empty and "." elements, let ".." take
\* away the element before it, drop ".." at the root of a rooted path and
\* keep it at the start of a relative one.
RECURSIVE CleanSegs(_, _, _)
CleanSegs(rest, out, rooted) ==
    IF rest = <<>> THEN out
    ELSE LET e == Head(rest) IN
         IF e = <<>> \/ e = Dot THEN CleanSegs(Tail(rest), out, rooted)
         ELSE IF e = DotDot
         THEN IF Len(out) > 0 /\ out[Len(out)] # DotDot
              THEN CleanSegs(Tail(rest), SubSeq(out, 1, Len(out) - 1), rooted)
              ELSE IF rooted THEN CleanSegs(Tail(rest), out, rooted)
              ELSE CleanSegs(Tail(rest), Append(out, e), rooted)
         ELSE CleanSegs(Tail(rest), Append(out, e), rooted)

\* filepath.Clean and path.Clean (the same rules where the separator is "/").
Clean(p) ==
    IF p = <<>> THEN Dot
    ELSE LET rooted == p[1] = "/"
             out == Join(CleanSegs(Split(p), <<>>, rooted))
         IN IF rooted THEN Slash \o out
            ELSE IF out = <<>> THEN Dot
            ELSE out

\* The absolute name the operating system opens for a name given to
\* os.ReadFile: a rooted name as it is, a relative one under the working
\* directory.
Resolve(name) ==
    IF HasPrefix(name, Slash) THEN name
    ELSE IF name = Dot THEN Root
    ELSE Root \o Slash \o name

\* A name that lies inside the served root.
InsideRoot(abs) == abs = Root \/ HasPrefix(abs, Root \o Slash)

\* The regular files of the file system, by absolute name.
Files ==
    { Root \o <<"/","x",".","m","d">>,
      Root \o <<"/","X",".","M","D">>,
      Root \o <<"/",".",".","x",".","m","d">>,
      Root \o <<"/","o","/","x",".","m","d">>,
      Root \o <<"/","a">>,
      <<"/","x",".","m","d">>,
      <<"/","o","/","x",".","m","d">>,
      <<"/",".",".","x",".","m","d">> }

\* The directories of the file system.
Dirs ==
    { Slash, Root, Root \o <<"/","o">>, <<"/","o">> }

(***************************************************************************)
(* The static file-serving primitive: http.FileServer(http.Dir("."))       *)
(***************************************************************************)
NotFound == [status |-> 404, kind |-> "text", file |-> <<>>]

\* fs.ServeHTTP: the cleaned request path is opened under the root; a file
\* is served as it is, a directory is listed, a name that is neither is not
\* found, and a path whose trailing slash does not fit what it names is
\* redirected.
FileServer(path) ==
    LET upath == IF HasPrefix(path, Slash) THEN path ELSE Slash \o path
        name == Clean(upath)
        abs == IF name = Slash THEN Root ELSE Root \o name
        trailing == HasSuffix(upath, Slash)
    IN IF abs \in Files
       THEN IF trailing
            THEN [status |-> 301, kind |-> "redirect", file |-> abs]
            ELSE [status |-> 200, kind |-> "raw", file |-> abs]
       ELSE IF abs \in Dirs
       THEN IF trailing
            THEN [status |-> 200, kind |-> "listing", file |-> abs]
            ELSE [status |-> 301, kind |-> "redirect", file |-> abs]
       ELSE NotFound

(***************************************************************************)
(* Content renderer: serveMarkdown                                         *)
(***************************************************************************)
IsMarkdown_exact(path) == HasSuffix(path, MdSuffix)

\* Only handle .md files: the extension test, case-insensitive.
IsMarkdown(path) == HasSuffix(ToLower(path), MdSuffix)

\* The name serveMarkdown reads: the path without its first slash, cleaned.
CleanName(path) == Clean(TrimPrefix(path, Slash))

\* The traversal test: the cleaned name starts with "..".
Escapes(clean) == HasPrefix(clean, DotDot)

\* os.ReadFile(name): the file's bytes (named by the file) or an error.
ReadFile(name) ==
    IF Resolve(name) \in Files
    THEN [ok |-> TRUE, file |-> Resolve(name)]
    ELSE [ok |-> FALSE, file |-> <<>>]

Declined == [handled |-> FALSE, reads |-> <<>>, resp |-> NotFound]

serveMarkdown_passes(path, raw, conv) ==
    IF ~IsMarkdown(path) THEN Declined
    ELSE IF raw THEN Declined
    ELSE LET clean == CleanName(path) IN
         IF Escapes(clean) THEN Declined
         ELSE LET content == ReadFile(clean) IN
              IF ~content.ok \/ conv # "ok"
              THEN [Declined EXCEPT !.reads = <<Resolve(clean)>>]
              ELSE [handled |-> TRUE, reads |-> <<Resolve(clean)>>,
                    resp |-> [status |-> 200, kind |-> "html",
                              file |-> content.file]]

\* serveMarkdown(w, r, path): whether it wrote the response, the names it
\* gave to os.ReadFile and the response it wrote.  raw says that the query
\* has the raw flag, conv what the Markdown conversion does.
serveMarkdown(path, raw, conv) ==
    IF ~IsMarkdown(path) THEN Declined
    ELSE IF raw THEN Declined
    ELSE LET clean == CleanName(path) IN
         IF Escapes(clean) THEN Declined
         ELSE LET content == ReadFile(clean) IN
              IF ~content.ok
              THEN [Declined EXCEPT !.reads = <<Resolve(clean)>>]
              ELSE IF conv # "ok"
              THEN [handled |-> TRUE, reads |-> <<Resolve(clean)>>,
                    resp |-> [status |-> 500, kind |-> "text",
                              file |-> <<>>]]
              ELSE [handled |-> TRUE, reads |-> <<Resolve(clean)>>,
                    resp |-> [status |-> 200, kind |-> "html",
                              file |-> content.file]]

\* What the handler does after the access-log line: the renderer ("md"
\* only), and the static primitive when the renderer declined.
Respond(v, path, raw, conv) ==
    IF v = "md"
    THEN LET m == serveMarkdown(path, raw, conv) IN
         IF m.handled THEN [by |-> "renderer", reads |-> m.reads,
                            resp |-> m.resp]
         ELSE [by |-> "static", reads |-> m.reads, resp |-> FileServer(path)]
    ELSE [by |-> "static", reads |-> <<>>, resp |-> FileServer(path)]

(***************************************************************************)
(* Mode bootstrap: main up to srv.Serve                                    *)
(***************************************************************************)
\* The default of the port flag.
DefaultPort ==
    <<"8","0","8","0">>
\* Ports a run may name with the port flag.
OtherPort ==
    <<"9","0","0","0">>
ThirdPort ==
    <<"9","0","0","1">>

\* The port flag was not given on the command line.
NoFlag == <<"-">>

\* The state directory holds no readable port file.
NoFile == <<"-", "-">>

\* strings.TrimSpace
IsSpace(c) == c \in {" ", "\n", "\t", "\r"}
RECURSIVE TrimLeft(_)
TrimLeft(s) ==
    IF s # <<>> /\ IsSpace(Head(s)) THEN TrimLeft(Tail(s)) ELSE s
RECURSIVE TrimRight(_)
TrimRight(s) ==
    IF s # <<>> /\ IsSpace(s[Len(s)])
    THEN TrimRight(SubSeq(s, 1, Len(s) - 1))
    ELSE s
TrimSpace(s) == TrimRight(TrimLeft(s))

\* strings.TrimSuffix
TrimSuffix(s, p) ==
    IF HasSuffix(s, p) THEN SubSeq(s, 1, Len(s) - Len(p)) ELSE s

\* firstLabel: the name up to its first dot.
RECURSIVE FirstLabel(_)
FirstLabel(s) ==
    IF s = <<>> \/ Head(s) = "." THEN <<>>
    ELSE <<Head(s)>> \o FirstLabel(Tail(s))

\* isFlagSet("port"): the flag was given on the command line.
isFlagSet(flag) == flag # NoFlag

ListenPort_default(v, flag, file) ==
    IF isFlagSet(flag) THEN flag ELSE DefaultPort

\* The value of *port when the Local listener is made: the flag's value, or
\* ("md") the trimmed content of the port file when the flag was not given
\* and the file can be read, or the flag's default.
ListenPort(v, flag, file) ==
    IF isFlagSet(flag) THEN flag
    ELSE IF v = "md" /\ file # NoFile THEN TrimSpace(file)
    ELSE DefaultPort

\* os.WriteFile(portFile, []byte(*port), 0600), its error ignored: the file
\* holds the port, or is left as it was (it cannot be opened), or is left
\* empty (opened and truncated, then the write fails).
WriteOutcomes == {"ok", "denied", "cut"}
WritePortFile(file, p, o) ==
    CASE o = "ok"     -> p
      [] o = "denied" -> file
      [] o = "cut"    -> <<>>

\* prettyPath(): the working directory, shortened.
PrettyPath ==
    <<"~","/","r">>
AtText ==
    <<" ","a","t"," ">>
HttpLocalhost ==
    <<"h","t","t","p",":","/","/","l","o","c","a","l","h","o","s","t">>
HttpsScheme ==
    <<"h","t","t","p","s",":","/","/">>
ServingText ==
    <<"s","e","r","v","i","n","g"," ","."," ","a","t"," ">>
Ellipsis ==
    <<" ",".",".",".">>
\* The name the provider reports for this node.
DNSName ==
    <<"r",".","t",".","t","s",".","n","e","t",".">>

\* The startup confirmation of Local mode.
LocalAnnounce(v, p) ==
    IF v = "md"
    THEN PrettyPath \o AtText \o HttpLocalhost \o <<":">> \o p
    ELSE ServingText \o HttpLocalhost \o <<":">> \o p \o Ellipsis

\* The announcement of the reachable address in Secured mode.
ReadyAnnounce(v) ==
    IF v = "md"
    THEN PrettyPath \o AtText \o HttpsScheme \o TrimSuffix(DNSName, Dot)
    ELSE ServingText \o HttpsScheme \o TrimSuffix(DNSName, Dot)

\* The errors log.Fatal prints during startup.
MkdirErr ==
    <<"m","k","d","i","r"," ",".","/",".","s","e","r","v","e",":"," ","p","e",
      "r","m","i","s","s","i","o","n"," ","d","e","n","i","e","d">>
GetwdErr ==
    <<"g","e","t","w","d",":"," ","n","o"," ","s","u","c","h"," ","f","i","l",
      "e"," ","o","r"," ","d","i","r","e","c","t","o","r","y">>
BindErrHead ==
    <<"l","i","s","t","e","n"," ","t","c","p"," ",":">>
BindErrTail ==
    <<":"," ","b","i","n","d",":"," ","a","d","d","r","e","s","s"," ","a","l",
      "r","e","a","d","y"," ","i","n"," ","u","s","e">>
ProviderErr ==
    <<"t","s","n","e","t",":"," ","b","a","c","k","e","n","d"," ","d","i","d",
      " ","n","o","t"," ","s","t","a","r","t">>

\* What the environment does to the steps of a startup.
Envs ==
    [mkdir : {"ok", "fail"}, getwd : {"ok", "fail"}, bind : {"ok", "fail"},
     client : {"ok", "fail"}, write : WriteOutcomes]

\* log.Fatal(err) during startup: the error is logged and the process exits.
Fatal(cause, msg, file) ==
    [fatal |-> TRUE, cause |-> cause, ln |-> "none", whoIs |-> "nil",
     poller |-> FALSE, port |-> <<>>, file |-> file, msg |-> msg]

\* A startup that reaches srv.Serve.
Ready(l, w, poller, p, file, msg) ==
    [fatal |-> FALSE, cause |-> "none", ln |-> l, whoIs |-> w,
     poller |-> poller, port |-> p, file |-> file, msg |-> msg]

\* The identity resolver of Local mode: the constant stub in "stub", none in
\* "md" and "srv", whose handler does not call it in Local mode.
LocalResolver(v) == IF v = "stub" THEN "stub" ELSE "nil"

BootLocal_writefirst(v, flag, file, env) ==
    LET p == ListenPort(v, flag, file)
        saved == IF v = "md" THEN WritePortFile(file, p, env.write) ELSE file
    IN IF env.bind # "ok"
       THEN Fatal("bind", BindErrHead \o p \o BindErrTail, saved)
       ELSE Ready("plain", LocalResolver(v), FALSE, p, saved,
                  LocalAnnounce(v, p))

BootLocal_unchecked(v, flag, file, env) ==
    LET p == ListenPort(v, flag, file) IN
    Ready(IF env.bind = "ok" THEN "plain" ELSE "none", LocalResolver(v),
          FALSE, p,
          IF v = "md" THEN WritePortFile(file, p, env.write) ELSE file,
          LocalAnnounce(v, p))

\* The Local branch of main.
BootLocal(v, flag, file, env) ==
    LET p == ListenPort(v, flag, file) IN
    IF env.bind # "ok"
    THEN Fatal("bind", BindErrHead \o p \o BindErrTail, file)
    ELSE Ready("plain", LocalResolver(v), FALSE, p,
               IF v = "md" THEN WritePortFile(file, p, env.write) ELSE file,
               LocalAnnounce(v, p))

\* The Secured branch of main, after the state directory exists.
BootSecured(v, file, env) ==
    IF env.bind # "ok" THEN Fatal("provider-listen", ProviderErr, file)
    ELSE IF env.client # "ok" THEN Fatal("provider-client", ProviderErr, file)
    ELSE Ready("tls", "provider", TRUE, <<"4", "4", "3">>, file, <<>>)

\* main from flag.Parse to srv.Serve: the state directory (always in "md",
\* in Secured mode only in "srv" and "stub"), the host name, then the branch
\* of the mode.
Bootstrap(v, isLocal, flag, file, env) ==
    IF v = "md" /\ env.mkdir # "ok" THEN Fatal("mkdir", MkdirErr, file)
    ELSE IF env.getwd # "ok" THEN Fatal("getwd", GetwdErr, file)
    ELSE IF isLocal THEN BootLocal(v, flag, file, env)
    ELSE IF v # "md" /\ env.mkdir # "ok" THEN Fatal("mkdir", MkdirErr, file)
    ELSE BootSecured(v, file, env)

(***************************************************************************)
(* Request dispatcher: the handler of srv                                  *)
(***************************************************************************)
\* The identity the provider resolves a peer to.
LoginName ==
    <<"a","m","y","@","x",".","i","o">>
ComputedName ==
    <<"p","c",".","t",".","t","s",".","n","e","t">>
\* The identity the Local stub of "stub" returns.
StubLogin ==
    <<"l","o","c","a","l","-","u","s","e","r">>
StubName ==
    <<"l","o","c","a","l","h","o","s","t">>
\* The error of a failed identity resolution.
WhoIsErr ==
    <<"n","o"," ","p","e","e","r">>
\* How "srv" and "stub" name an unresolved identity.
UnknownUser ==
    <<"u","n","k","n","o","w","n"," ","u","s","e","r"," ","(">>
UnknownWord ==
    <<"u","n","k","n","o","w","n">>

\* whoIs(ctx, remoteAddr): the provider resolves the peer or fails
\* (res), the stub always answers, and calling no function at all panics.
WhoIs(w, res) ==
    CASE w = "provider" ->
           IF res = "ok"
           THEN [st |-> "ok", login |-> LoginName, name |-> ComputedName]
           ELSE [st |-> "err", login |-> <<>>, name |-> <<>>]
      [] w = "stub" ->
           [st |-> "ok", login |-> StubLogin, name |-> StubName]
      [] OTHER -> [st |-> "panic", login |-> <<>>, name |-> <<>>]

Resolves_always(v, isLocal) == TRUE

\* Whether the handler resolves the identity: always in "stub", in Secured
\* mode only in "md" and "srv".
Resolves(v, isLocal) == v = "stub" \/ ~isLocal

AccessMsg_nomark(v, isLocal, who, path) ==
    IF v = "md" THEN path ELSE AccessText \o path

\* The text of the access-log line.
AccessMsg(v, isLocal, who, path) ==
    IF v = "md"
    THEN IF isLocal THEN path
         ELSE IF who.st = "err" THEN UnknownMark \o path
         ELSE who.login \o <<" ", "(">> \o FirstLabel(who.name)
              \o <<")", " ">> \o path
    ELSE IF v = "srv" /\ isLocal THEN AccessText \o path
    ELSE IF who.st = "err"
    THEN AccessText \o UnknownUser \o WhoIsErr \o <<")", " ">> \o path
    ELSE AccessText \o who.login \o <<" ", "(">> \o FirstLabel(who.name)
         \o <<")", " ">> \o path

\* The paths requests of the server specification ask for.
PathDoc ==
    <<"/","x",".","m","d">>
PathNone ==
    <<"/","n","o","p","e">>

(***************************************************************************)
(* The state before anything ran, and of a part a specification leaves out *)
(***************************************************************************)
NoRequest == [path |-> <<>>, raw |-> FALSE, conv |-> "ok"]
NoResponse == [by |-> "none", reads |-> <<>>, resp |-> NotFound]

IdleRender ==
    /\ rq = NoRequest
    /\ rs = NoResponse

Conns == 1..MaxConns

NoWho == [st |-> "none", login |-> <<>>, name |-> <<>>]

IdleConn ==
    [st |-> "idle", path |-> <<>>, conv |-> "ok", who |-> "none",
     log |-> <<>>, by |-> "none", resp |-> NotFound, late |-> FALSE]

\* main before flag.Parse returned: nothing is made yet.
InitProcess ==
    /\ pc = "boot"
    /\ ln = "none"
    /\ whoIs = "nil"
    /\ port = <<>>
    /\ bootLog = <<>>
    /\ backend = "Starting"
    /\ pollPc = "off"
    /\ pollT = 0
    /\ pollSaw = "none"
    /\ pollLog = <<>>
    /\ sd = "waiting"
    /\ drainT = 0
    /\ sdLog = <<>>
    /\ conns = [c \in Conns |-> IdleConn]

IdleMain ==
    /\ InitProcess
    /\ local = FALSE
    /\ explicit = NoFlag
    /\ portFile = NoFile

NoRun ==
    [started |-> FALSE, local |-> FALSE, explicit |-> NoFlag,
     fatal |-> FALSE, port |-> <<>>, hadFile |-> FALSE, file |-> NoFile,
     prevPort |-> NoFlag, prevWrote |-> FALSE, ln |-> "none",
     env |-> [mkdir |-> "ok", getwd |-> "ok", bind |-> "ok",
              client |-> "ok", write |-> "ok"]]

IdleRun ==
    /\ run = NoRun
    /\ okPort = NoFlag
    /\ okWrote = FALSE


Writers == 1..MaxWriters

\* A goroutine that is not in logFilter.Write.
NoWrite ==
    [pc |-> "idle", p |-> <<>>, class |-> "none", at |-> 0, open |-> FALSE,
     seen |-> FALSE, seenAt |-> 0, behind |-> FALSE]

IdleLock ==
    /\ wr = [w \in Writers |-> NoWrite]
    /\ mu = 0
    /\ shown = <<>>
    /\ calls = 0
(***************************************************************************)
(* Specification of the filter on its own                                  *)
(***************************************************************************)
\* The lines offered to the filter on its own.
AuthLine == LogLine(AuthPromptText \o AuthPromptRest)
FilterLines ==
    { AuthLine,
      LogLine(ShutdownMsg),
      LogLine(TimeoutMsg),
      LogLine(NoiseMsg),
      LogLine(ErrorAuthMsg),
      LogLine(<<"/", "x">>),
      LogLine(AccessText \o <<"/", "x">>) }

\* By how much the clock advances between writes.
Advances == {1, Minute - 1, Minute}

NoCall ==
    [class |-> "none", p |-> <<>>, t |-> 0, o |-> "ok", handed |-> FALSE,
     ret |-> Suppress(<<>>), prevShown |-> FALSE, prevAt |-> 0]

InitFilter ==
    /\ now = 0
    /\ auth = FALSE
    /\ lastAuth = ZeroTime
    /\ last = NoCall
    /\ everShown = FALSE
    /\ shownAt = 0
    /\ ticks = 0

\* One call of logFilter.Write.
FilterWrite(p, o) ==
    \E r \in {Write(variant, [auth |-> auth, lastAuth |-> lastAuth], p, now, o)} :
    LET isAuth == r.class = "auth"
    IN /\ auth' = r.auth
       /\ lastAuth' = r.lastAuth
       /\ last' = [class |-> r.class, p |-> p, t |-> now, o |-> o,
                   handed |-> r.handed, ret |-> r.ret,
                   prevShown |-> everShown, prevAt |-> shownAt]
       /\ everShown' = (everShown \/ (isAuth /\ r.handed))
       /\ shownAt' = IF isAuth /\ r.handed THEN now ELSE shownAt
       /\ UNCHANGED <<variant, now, ticks, renderVars, mainVars, runVars, lockVars>>

\* Time passes.
Advance(d) ==
    /\ ticks < MaxTicks
    /\ now' = now + d
    /\ ticks' = ticks + 1
    /\ UNCHANGED <<variant, auth, lastAuth, last, everShown, shownAt>>
    /\ UNCHANGED <<renderVars, mainVars, runVars, lockVars>>

InitF ==
    /\ variant \in Variants
    /\ InitFilter
    /\ IdleRender
    /\ IdleMain
    /\ IdleRun
    /\ IdleLock

NextF ==
    \/ \E p \in FilterLines, o \in StderrOutcomes : FilterWrite(p, o)
    \/ \E d \in Advances : Advance(d)

SpecFilter == InitF /\ [][NextF]_vars

(***************************************************************************)
(* Specification of the renderer and the static primitive on one request   *)
(***************************************************************************)
\* The elements request paths are made of.
PathSegs ==
    { <<>>, Dot, DotDot, <<"o">>, <<"x",".","m","d">>,
      <<".",".","x",".","m","d">>, <<"X",".","M","D">>, <<"a">> }

\* The request paths: a slash, then up to MaxSegs elements with slashes
\* between them.
UrlPaths ==
    { Slash \o Join(segs) :
        segs \in UNION { [1..k -> PathSegs] : k \in 1..MaxSegs } }

InitR ==
    /\ variant \in Variants
    /\ rq \in [path : UrlPaths, raw : BOOLEAN, conv : {"ok", "fail"}]
    /\ rs = NoResponse
    /\ InitFilter
    /\ IdleMain
    /\ IdleRun
    /\ IdleLock

\* The handler's answer to the request.
Handle ==
    /\ rs = NoResponse
    /\ rs' = Respond(variant, rq.path, rq.raw, rq.conv)
    /\ UNCHANGED <<variant, rq, filterVars, mainVars, runVars, lockVars>>

NextR == Handle

SpecRender == InitR /\ [][NextR]_vars

(***************************************************************************)
(* Specification of the server: startup, poller, dispatcher, shutdown      *)
(***************************************************************************)
\* The delay between two polls of the provider's status.
PollInterval == 500

\* The timeout of the poller's context.
ReadyTimeout == 60000

\* The timeout of the context given to srv.Shutdown.
DrainBound == 5000

\* The revisions whose poller has a timeout context.
HasTimeout(v) == v \in {"md", "srv"}

\* The revisions that install the signal handler and call srv.Shutdown.
HasShutdown(v) == v \in {"md", "srv"}

\* log.Printf(msg) through the filter that log.SetOutput installed.
Logged(msg) ==
    Write(variant, [auth |-> auth, lastAuth |-> lastAuth], LogLine(msg),
          now, "ok")

\* What a log call leaves of the filter.
Filtered(r) ==
    /\ auth' = r.auth
    /\ lastAuth' = r.lastAuth
    /\ UNCHANGED <<now, last, everShown, shownAt, ticks>>

Entry(what, msg, r) == [what |-> what, msg |-> msg, passed |-> r.handed]

\* main from its start to srv.Serve, or to log.Fatal.
Start(env) ==
    /\ pc = "boot"
    /\ \E b \in {Bootstrap(variant, local, explicit, portFile, env)} :
       \E r \in {Logged(b.msg)} :
         /\ pc' = IF b.fatal THEN "fatal" ELSE "serving"
         /\ ln' = b.ln
         /\ whoIs' = b.whoIs
         /\ portFile' = b.file
         /\ port' = b.port
         /\ pollPc' = IF b.poller THEN "status" ELSE "off"
         /\ IF b.msg = <<>>
            THEN /\ bootLog' = bootLog
                 /\ UNCHANGED filterVars
            ELSE /\ bootLog' = Append(bootLog,
                        Entry(IF b.fatal THEN "fatal" ELSE "announce",
                              b.msg, r))
                 /\ Filtered(r)
    /\ UNCHANGED <<variant, local, explicit, backend, pollT, pollSaw,
                   pollLog, shutVars, conns, renderVars, runVars, lockVars>>

\* The overlay network comes up.
BackendRuns ==
    /\ pc = "serving"
    /\ ~local
    /\ backend = "Starting"
    /\ backend' = "Running"
    /\ UNCHANGED <<variant, filterVars, renderVars, bootVars, pollPc, pollT,
                   pollSaw, pollLog, shutVars, conns, runVars, lockVars>>

\* lc.Status(ctx) as the poller sees it: an error once the context has
\* expired, else the backend's state.
Status(v, t, b) ==
    IF HasTimeout(v) /\ t >= ReadyTimeout THEN "err" ELSE b

\* The poller asks for the status; on "Running" it announces the address
\* and returns, and the deferred cancel() releases the context and its
\* timer.
PollStatus ==
    /\ pc = "serving"
    /\ pollPc = "status"
    /\ pollSaw' = Status(variant, pollT, backend)
    /\ IF pollSaw' = "Running"
       THEN \E r \in {Logged(ReadyAnnounce(variant))} :
              /\ pollLog' = Append(pollLog,
                                   Entry("announce", ReadyAnnounce(variant), r))
              /\ pollPc' = "done"
              /\ pollT' = 0
              /\ Filtered(r)
       ELSE /\ pollPc' = "wait"
            /\ UNCHANGED <<pollLog, pollT, filterVars>>
    /\ UNCHANGED <<variant, renderVars, bootVars, backend, shutVars,
                   conns, runVars, lockVars>>

\* The poller's delay ends: time.After fires (time.Sleep returns, where
\* there is no timeout), not later than the context's deadline.
PollSleep ==
    /\ pc = "serving"
    /\ pollPc = "wait"
    /\ HasTimeout(variant) => pollT + PollInterval <= ReadyTimeout
    /\ pollT' = IF HasTimeout(variant) THEN pollT + PollInterval ELSE pollT
    /\ pollPc' = "status"
    /\ UNCHANGED <<variant, filterVars, renderVars, bootVars, backend,
                   pollSaw, pollLog, shutVars, conns, runVars, lockVars>>

PollTimeout_fatal ==
    /\ pc = "serving"
    /\ pollPc = "wait"
    /\ HasTimeout(variant)
    /\ pollT + PollInterval >= ReadyTimeout
    /\ pollT' = IF pollT > ReadyTimeout THEN pollT ELSE ReadyTimeout
    /\ \E r \in {Logged(TimeoutMsg)} :
         /\ pollLog' = Append(pollLog, Entry("timeout", TimeoutMsg, r))
         /\ Filtered(r)
    /\ pollPc' = "done"
    /\ pc' = "fatal"
    /\ UNCHANGED <<variant, renderVars, local, explicit, ln, whoIs, portFile,
                   port, bootLog, backend, pollSaw, shutVars, conns, runVars, lockVars>>

\* The poller's context expires before or with the delay: it logs the
\* timeout and returns.
PollTimeout ==
    /\ pc = "serving"
    /\ pollPc = "wait"
    /\ HasTimeout(variant)
    /\ pollT + PollInterval >= ReadyTimeout
    /\ pollT' = IF pollT > ReadyTimeout THEN pollT ELSE ReadyTimeout
    /\ \E r \in {Logged(TimeoutMsg)} :
         /\ pollLog' = Append(pollLog, Entry("timeout", TimeoutMsg, r))
         /\ Filtered(r)
    /\ pollPc' = "done"
    /\ UNCHANGED <<variant, renderVars, bootVars, backend, pollSaw,
                   shutVars, conns, runVars, lockVars>>

\* A connection whose handler is running.
Active(c) == conns[c].st \in {"accepted", "logged"}

\* An interrupt or termination signal arrives: the goroutine logs the
\* notice and calls srv.Shutdown, which closes the listener; where no
\* handler is installed the signal ends the process.
Signal ==
    /\ pc = "serving"
    /\ sd = "waiting"
    /\ IF HasShutdown(variant)
       THEN \E r \in {Logged(ShutdownMsg)} :
              /\ sd' = "draining"
              /\ sdLog' = Append(sdLog, Entry("shutdown", ShutdownMsg, r))
              /\ Filtered(r)
              /\ pc' = pc
       ELSE /\ sd' = "killed"
            /\ pc' = "exited"
            /\ UNCHANGED <<sdLog, filterVars>>
    /\ UNCHANGED <<variant, renderVars, local, explicit, ln, whoIs, portFile,
                   port, bootLog, pollVars, drainT, conns, runVars, lockVars>>

\* srv.Shutdown finds no active connection and returns.
DrainDone ==
    /\ pc = "serving"
    /\ sd = "draining"
    /\ \A c \in Conns : ~Active(c)
    /\ sd' = "drained"
    /\ UNCHANGED <<variant, filterVars, renderVars, bootVars, pollVars,
                   drainT, sdLog, conns, runVars, lockVars>>

\* srv.Shutdown waits for a connection that is still active until its
\* context expires, DrainBound after the call, and returns the context's
\* error.
DrainExpire ==
    /\ pc = "serving"
    /\ sd = "draining"
    /\ \E c \in Conns : Active(c)
    /\ drainT' = DrainBound
    /\ sd' = "expired"
    /\ UNCHANGED <<variant, filterVars, renderVars, bootVars, pollVars,
                   sdLog, conns, runVars, lockVars>>

\* srv.Serve returns http.ErrServerClosed as soon as srv.Shutdown has closed
\* the listener; main returns and the process ends.  (The listener of this
\* model does not fail on its own, so Serve returns no other error.)
ServeReturns ==
    /\ pc = "serving"
    /\ sd \in {"draining", "drained", "expired"}
    /\ pc' = "exited"
    /\ UNCHANGED <<variant, filterVars, renderVars, local, explicit, ln,
                   whoIs, portFile, port, bootLog, pollVars, shutVars,
                   conns, runVars, lockVars>>

\* The requests clients send: a Markdown file that exists, whose conversion
\* works or fails, and a name that does not exist.
Requests ==
    { [path |-> PathDoc, conv |-> "ok"],
      [path |-> PathDoc, conv |-> "fail"],
      [path |-> PathNone, conv |-> "ok"] }

\* What the handler's second part answers to each of these requests, in
\* each revision.
Responses ==
    [v \in Variants, q \in Requests |-> Respond(v, q.path, FALSE, q.conv)]

\* The request connection c carries.
Request(c) == [path |-> conns[c].path, conv |-> conns[c].conv]

\* The server accepts a connection and reads a request from it.
Accept(c, path, conv) ==
    /\ pc = "serving"
    /\ sd = "waiting"
    /\ conv = "fail" => variant = "md"
    /\ conns[c].st = "idle"
    /\ conns' = [conns EXCEPT ![c] =
                   [IdleConn EXCEPT !.st = "accepted", !.path = path,
                      !.conv = conv,
                      !.late = (pollPc = "done" /\ pollSaw # "Running")]]
    /\ UNCHANGED <<variant, filterVars, renderVars, bootVars, pollVars,
                   shutVars, runVars, lockVars>>

\* The handler's first part: the identity is resolved where the revision
\* and the mode ask for it, and the access-log line is logged.
LogAccess(c, res) ==
    /\ pc = "serving"
    /\ conns[c].st = "accepted"
    /\ LET who == IF Resolves(variant, local) THEN WhoIs(whoIs, res)
                  ELSE NoWho
           msg == AccessMsg(variant, local, who, conns[c].path)
       IN IF who.st = "panic"
          THEN /\ conns' = [conns EXCEPT ![c].st = "panicked",
                                         ![c].who = who.st]
               /\ UNCHANGED filterVars
          ELSE \E r \in {Logged(msg)} :
                 /\ conns' = [conns EXCEPT ![c].st = "logged",
                                ![c].who = who.st,
                                ![c].log = Append(@, Entry("access", msg, r))]
                 /\ Filtered(r)
    /\ UNCHANGED <<variant, renderVars, bootVars, pollVars, shutVars,
                   runVars, lockVars>>

Serve_early(c) ==
    /\ pc = "serving"
    /\ conns[c].st \in {"accepted", "logged"}
    /\ \E a \in {Responses[variant, Request(c)]} :
         conns' = [conns EXCEPT ![c].st = "done", ![c].by = a.by,
                                ![c].resp = a.resp]
    /\ UNCHANGED <<variant, filterVars, renderVars, bootVars, pollVars,
                   shutVars, runVars, lockVars>>

\* The handler's second part: the renderer and the static primitive write
\* the response.
Serve(c) ==
    /\ pc = "serving"
    /\ conns[c].st = "logged"
    /\ \E a \in {Responses[variant, Request(c)]} :
         conns' = [conns EXCEPT ![c].st = "done", ![c].by = a.by,
                                ![c].resp = a.resp]
    /\ UNCHANGED <<variant, filterVars, renderVars, bootVars, pollVars,
                   shutVars, runVars, lockVars>>

\* The connection is done with its request.
Close(c) ==
    /\ pc = "serving"
    /\ conns[c].st \in {"done", "panicked"}
    /\ conns' = [conns EXCEPT ![c] = IdleConn]
    /\ UNCHANGED <<variant, filterVars, renderVars, bootVars, pollVars,
                   shutVars, runVars, lockVars>>

InitM ==
    /\ variant \in Variants
    /\ InitFilter
    /\ IdleRender
    /\ InitProcess
    /\ local \in BOOLEAN
    /\ explicit = NoFlag
    /\ portFile = NoFile
    /\ IdleRun
    /\ IdleLock

Poller == PollStatus \/ PollSleep \/ PollTimeout

NextM ==
    \/ \E env \in Envs : Start(env)
    \/ BackendRuns
    \/ PollStatus
    \/ PollSleep
    \/ PollTimeout
    \/ Signal
    \/ DrainDone
    \/ DrainExpire
    \/ ServeReturns
    \/ \E c \in Conns, q \in Requests : Accept(c, q.path, q.conv)
    \/ \E c \in Conns, res \in {"ok", "err"} : LogAccess(c, res)
    \/ \E c \in Conns : Serve(c)
    \/ \E c \in Conns : Close(c)

SpecMain == InitM /\ [][NextM]_vars

(***************************************************************************)
(* Specification of startup, poller and shutdown under fair scheduling:    *)
(* a goroutine that can run does run, and a timer that is due fires, while *)
(* the overlay network and the signal come when they come.                 *)
(***************************************************************************)
NextP ==
    \/ \E env \in Envs : Start(env)
    \/ BackendRuns
    \/ PollStatus
    \/ PollSleep
    \/ PollTimeout
    \/ Signal
    \/ DrainDone
    \/ ServeReturns

SpecReadyFair ==
    /\ InitM
    /\ [][NextP]_vars
    /\ WF_vars(PollStatus)
    /\ WF_vars(PollSleep \/ PollTimeout)
    /\ WF_vars(DrainDone)
    /\ WF_vars(ServeReturns)

(***************************************************************************)
(* Specification of startups that share one state directory                *)
(***************************************************************************)
\* The values the port flag is given.
FlagValues == {NoFlag, DefaultPort, OtherPort, ThirdPort}

\* One run of the program up to srv.Serve or log.Fatal, on the port file
\* the runs before it left.
Startup(l, e, env) ==
    \E b \in {Bootstrap(variant, l, e, portFile, env)} :
      /\ run' = [started |-> TRUE, local |-> l, explicit |-> e,
                 fatal |-> b.fatal, port |-> b.port,
                 hadFile |-> (portFile # NoFile), file |-> portFile,
                 prevPort |-> okPort, prevWrote |-> okWrote,
                 ln |-> b.ln, env |-> env]
      /\ portFile' = b.file
      /\ okPort' = IF l /\ ~b.fatal THEN b.port ELSE okPort
      /\ okWrote' = IF l /\ ~b.fatal
                    THEN (variant = "md" /\ env.write = "ok")
                    ELSE okWrote
      /\ UNCHANGED <<variant, filterVars, renderVars, pc, local, explicit,
                     ln, whoIs, port, bootLog, pollVars, shutVars, conns,
                     lockVars>>

InitS ==
    /\ variant \in Variants
    /\ InitFilter
    /\ IdleRender
    /\ IdleMain
    /\ IdleRun
    /\ IdleLock

NextS == \E l \in BOOLEAN, e \in FlagValues, env \in Envs : Startup(l, e, env)

SpecStartups == InitS /\ [][NextS]_vars

(***************************************************************************)
(* Specification of concurrent calls of logFilter.Write: the standard      *)
(* logger hands each line to Write on the goroutine that logged it, and    *)
(* tsnet, the poller, the shutdown goroutine and the handlers all log.     *)
(***************************************************************************)
\* The lines the goroutines write at the same time: the authentication
\* line, and one that holds an allow-listed word besides.
LockLines == {AuthLine, LogLine(ErrorAuthMsg)}

\* By how much the clock advances between the goroutines' steps.
LockAdvances == {1, Minute}

\* The class the tests before the lock give a line.
ClassOf(v, p) ==
    IF AllowListed(v, p) THEN "allow"
    ELSE IF IsAuthPrompt(p) THEN "auth" ELSE "other"

\* Goroutine w calls Write(p).  The allow-list and the test for the
\* authentication line read only p; an authentication line goes on to
\* f.mu.Lock(), any other line to its return statement.
Call(w, p) ==
    /\ wr[w].pc = "idle"
    /\ calls < MaxCalls
    /\ calls' = calls + 1
    /\ \E k \in {ClassOf(variant, p)} :
         wr' = [wr EXCEPT ![w] =
                  [NoWrite EXCEPT
                     !.pc = IF k = "auth" THEN "lock" ELSE "pass",
                     !.p = p, !.class = k, !.behind = (mu # 0)]]
    /\ UNCHANGED <<variant, filterVars, renderVars, mainVars, runVars, mu,
                   shown>>

\* An allow-listed line is written, any other line dropped, and Write
\* returns: the lock and the throttle state are not touched.
Pass(w) ==
    /\ wr[w].pc = "pass"
    /\ wr' = [wr EXCEPT ![w] = NoWrite]
    /\ UNCHANGED <<variant, filterVars, renderVars, mainVars, runVars, mu,
                   shown, calls>>

Lock_free(w) ==
    /\ wr[w].pc = "lock"
    /\ mu' = w
    /\ wr' = [wr EXCEPT ![w].pc = "check"]
    /\ UNCHANGED <<variant, filterVars, renderVars, mainVars, runVars,
                   shown, calls>>

\* f.mu.Lock() returns: nobody else holds the lock.
Lock(w) ==
    /\ wr[w].pc = "lock"
    /\ mu = 0
    /\ mu' = w
    /\ wr' = [wr EXCEPT ![w].pc = "check"]
    /\ UNCHANGED <<variant, filterVars, renderVars, mainVars, runVars,
                   shown, calls>>

\* The throttle test, read at the clock's present value.
Check(w) ==
    /\ wr[w].pc = "check"
    /\ \E open \in {ThrottleOpen(auth, lastAuth, now)} :
         wr' = [wr EXCEPT ![w].pc = IF open THEN "stamp" ELSE "unlock",
                          ![w].at = now,
                          ![w].open = open,
                          ![w].seen = (shown # <<>>),
                          ![w].seenAt = IF shown # <<>>
                                        THEN shown[Len(shown)] ELSE 0]
    /\ UNCHANGED <<variant, filterVars, renderVars, mainVars, runVars, mu,
                   shown, calls>>

\* f.lastAuth = time.Now(); f.auth = true.
SetLastAuth(w) ==
    /\ wr[w].pc = "stamp"
    /\ lastAuth' = now
    /\ auth' = TRUE
    /\ shown' = Append(shown, now)
    /\ wr' = [wr EXCEPT ![w].pc = "emit"]
    /\ UNCHANGED <<variant, now, last, everShown, shownAt, ticks, renderVars,
                   mainVars, runVars, mu, calls>>

\* return os.Stderr.Write(p), the lock still held.
Emit(w) ==
    /\ wr[w].pc = "emit"
    /\ wr' = [wr EXCEPT ![w].pc = "unlock"]
    /\ UNCHANGED <<variant, filterVars, renderVars, mainVars, runVars, mu,
                   shown, calls>>

\* The deferred f.mu.Unlock(), and Write has returned.
Unlock(w) ==
    /\ wr[w].pc = "unlock"
    /\ mu' = 0
    /\ wr' = [wr EXCEPT ![w] = NoWrite]
    /\ UNCHANGED <<variant, filterVars, renderVars, mainVars, runVars,
                   shown, calls>>

InitL ==
    /\ variant \in Variants
    /\ InitFilter
    /\ IdleRender
    /\ IdleMain
    /\ IdleRun
    /\ IdleLock

NextL ==
    \/ \E w \in Writers, p \in LockLines : Call(w, p)
    \/ \E w \in Writers : Pass(w)
    \/ \E w \in Writers : Lock(w)
    \/ \E w \in Writers : Check(w)
    \/ \E w \in Writers : SetLastAuth(w)
    \/ \E w \in Writers : Emit(w)
    \/ \E w \in Writers : Unlock(w)
    \/ \E d \in LockAdvances : Advance(d)

SpecLock == InitL /\ [][NextL]_vars

(***************************************************************************)
(* Specification of one call of logFilter.Write, on each line the program  *)
(* and its libraries log and in each state the throttle can be in          *)
(***************************************************************************)
\* Lines of the libraries that carry the words "error" and "fail".
HandshakeErrMsg ==
    <<"h","t","t","p",":"," ","T","L","S"," ","h","a","n","d","s","h","a","k",
      "e"," ","e","r","r","o","r",":"," ","E","O","F">>
LoginFailMsg ==
    <<"c","o","n","t","r","o","l",":"," ","l","o","g","i","n"," ","f","a","i",
      "l","e","d">>

\* The request targets a handler sees in r.URL.Path: origin-form targets,
\* which start with a slash, and the empty path of an absolute-form target
\* that has none ("GET http://host HTTP/1.1").
TargetPaths == {PathDoc, Slash, <<>>}

\* Whom the resolver finds in the revision and mode.
Identities(v, isLocal) ==
    IF ~Resolves(v, isLocal) THEN {NoWho}
    ELSE IF isLocal THEN {WhoIs(LocalResolver(v), "ok")}
    ELSE {WhoIs("provider", "ok"), WhoIs("provider", "err")}

\* The access-log lines the handler of revision v logs for the paths.
AccessLinesOf(v, paths) ==
    UNION { { LogLine(AccessMsg(v, l, who, path)) :
                who \in Identities(v, l), path \in paths } :
            l \in BOOLEAN }

\* The access-log lines the handler of revision v logs.
AccessLines(v) == AccessLinesOf(v, TargetPaths)

\* The startup confirmations of revision v.
AnnounceLines(v) ==
    {LogLine(LocalAnnounce(v, DefaultPort)), LogLine(ReadyAnnounce(v))}

\* The bind failure log.Fatal prints, and the libraries' error and failure
\* lines.
FailureLines ==
    { LogLine(BindErrHead \o DefaultPort \o BindErrTail),
      LogLine(HandshakeErrMsg),
      LogLine(LoginFailMsg),
      LogLine(ErrorAuthMsg) }

\* Lines that carry none of the allow-list's marks and are no
\* authentication line.
PlainLines ==
    { LogLine(NoiseMsg), LogLine(ShutdownMsg), LogLine(TimeoutMsg),
      LogLine(<<>>) }

\* Every line revision v's filter is given.
EmittedLines(v) ==
    AccessLines(v) \cup AnnounceLines(v) \cup FailureLines \cup PlainLines
      \cup {AuthLine}

\* The states of the throttle: no authentication line shown yet, or one
\* shown at time 0 and the clock within, at and past the interval.
ThrottleStates ==
    { [now |-> 0, auth |-> FALSE, lastAuth |-> ZeroTime],
      [now |-> 1, auth |-> TRUE, lastAuth |-> 0],
      [now |-> Minute, auth |-> TRUE, lastAuth |-> 0],
      [now |-> Minute + 1, auth |-> TRUE, lastAuth |-> 0] }

InitC ==
    /\ variant \in Variants
    /\ \E f \in ThrottleStates :
         /\ now = f.now
         /\ auth = f.auth
         /\ lastAuth = f.lastAuth
         /\ everShown = f.auth
    /\ shownAt = 0
    /\ last = NoCall
    /\ ticks = 0
    /\ IdleRender
    /\ IdleMain
    /\ IdleRun
    /\ IdleLock

\* The one call of logFilter.Write.
Classify(p, o) ==
    /\ last = NoCall
    /\ p \in EmittedLines(variant)
    /\ FilterWrite(p, o)

NextC ==
    \E p \in UNION {EmittedLines(v) : v \in Variants}, o \in StderrOutcomes :
        Classify(p, o)

SpecClassify == InitC /\ [][NextC]_vars

(***************************************************************************)
(* Properties                                                              *)
(***************************************************************************)
\* C1 (as stated): an authentication line is handed to the output stream
\* exactly when it is the first one or at least 60 seconds have passed since
\* the last one that was handed on; arriving exactly 60 seconds later counts.
C1_AtLeastMinute ==
    last.class = "auth" =>
        (last.handed <=> (~last.prevShown \/ last.t - last.prevAt >= Minute))

\* C1 (amended): an authentication line is handed to the output stream
\* exactly when it is the first one or strictly more than 60 seconds have
\* passed since the last one that was handed on, which then becomes the
\* reference time.
C1_MoreThanMinute ==
    /\ last.class = "auth" =>
         (last.handed <=> (~last.prevShown \/ last.t - last.prevAt > Minute))
    /\ (last.class = "auth" /\ last.handed) => (everShown /\ shownAt = last.t)
    /\ (last.class = "auth" /\ ~last.handed) => shownAt = last.prevAt

\* C1 witness: a later authentication line shown again after the interval.
C1_Witness ==
    /\ last.class = "auth"
    /\ last.handed
    /\ last.prevShown
    /\ last.t - last.prevAt > Minute

\* C5 (as stated): every call returns the full length of its input and no
\* error, whatever the output stream does.
C5_AlwaysFull ==
    last.class # "none" =>
        (last.ret.n = Len(last.p) /\ last.ret.err = "nil")

\* C5 (amended): a call returns the full length of its input and no error
\* when the line is suppressed or the output stream takes all of it; when the
\* line is handed on and the stream writes short or fails, the call returns
\* the stream's byte count, which is smaller than the input, and its error.
C5_FullUnlessStreamFails ==
    last.class # "none" =>
        IF last.handed /\ last.o # "ok"
        THEN last.ret.n < Len(last.p) /\ last.ret.err # "nil"
        ELSE last.ret.n = Len(last.p) /\ last.ret.err = "nil"

\* C5 witness: a suppressed authentication line, which returns in full.
C5_Witness ==
    /\ last.class = "auth"
    /\ ~last.handed
    /\ last.ret.n = Len(last.p)
    /\ last.ret.n > 0

\* A request path with a parent-directory element.
HasDotDot(path) == \E i \in 1..Len(Split(path)) : Split(path)[i] = DotDot

\* C4 (as stated): for a request path with a parent-directory element the
\* renderer gives no name outside the served root to os.ReadFile, and the
\* response is the one the static primitive alone produces for the path.
C4_DotDotStaysInside ==
    (rs # NoResponse /\ variant = "md" /\ HasDotDot(rq.path)) =>
        /\ \A i \in 1..Len(rs.reads) : InsideRoot(rs.reads[i])
        /\ rs.resp = FileServer(rq.path)

\* C2 (as stated): after a signal the process exits only when the drain has
\* finished or its 5-second bound has expired; it never exits while a
\* request is still being served and the bound has not expired.
C2_ExitWaitsForDrain ==
    (HasShutdown(variant) /\ pc = "exited") =>
        \/ sd = "expired" /\ drainT >= DrainBound
        \/ sd \in {"draining", "drained"} /\ \A c \in Conns : ~Active(c)

\* A request whose identity resolution failed, and what was logged for it.
Unresolved(c) == conns[c].who = "err"
Answered(c) == conns[c].st = "done"

UnknownMarked(v, msg) ==
    IF v = "md" THEN HasPrefix(msg, UnknownMark)
    ELSE Contains(msg, UnknownWord)

Booted == pc \in {"serving", "exited"}

C7_PollerTerminates ==
    (pollPc = "status") ~> (pollPc = "done" \/ pc = "exited")

\* The poller gave up: it logged the timeout and returned.
TimedOut ==
    /\ pollPc = "done"
    /\ pollLog # <<>>
    /\ pollLog[Len(pollLog)].what = "timeout"

\* C8: a readiness timeout does not end the server: once the poller gave up
\* and as long as no signal arrived, main is in srv.Serve with the listener
\* open, a free connection takes a request, and a request that was taken is
\* logged and answered.
C8_TimeoutKeepsServing ==
    (TimedOut /\ sd = "waiting") =>
        /\ pc = "serving"
        /\ ln = "tls"
        /\ \A c \in Conns :
              /\ conns[c].st = "idle" => ENABLED Accept(c, PathDoc, "ok")
              /\ conns[c].st = "accepted" => ENABLED LogAccess(c, "ok")
              /\ conns[c].st = "logged" => ENABLED Serve(c)

\* C8 witness: a request that arrived after the timeout got status 200.
C8_Witness ==
    \E c \in Conns :
        /\ TimedOut
        /\ sd = "waiting"
        /\ conns[c].late
        /\ Answered(c)
        /\ conns[c].resp.status = 200

\* C9 (as stated): a Local startup with no port flag binds 8080 when no port
\* is remembered, and the port of the most recent earlier successful Local
\* startup when there was one.
C9_ReusesLastPort ==
    (variant = "md" /\ run.started /\ run.local /\ ~run.fatal
       /\ run.explicit = NoFlag) =>
        /\ ~run.hadFile => run.port = DefaultPort
        /\ run.prevPort # NoFlag => run.port = run.prevPort

\* C9 (amended): a Local startup with no port flag binds 8080 when the state
\* directory holds no port file, and the port of the most recent earlier
\* successful Local startup when that startup's write of the port file
\* succeeded; the write is unchecked, and after a failed one the startup
\* binds whatever the port file then holds, trimmed of white space (an
\* older port, or the empty port of a truncated file).
C9_ReusesLastWrittenPort ==
    (variant = "md" /\ run.started /\ run.local /\ ~run.fatal
       /\ run.explicit = NoFlag) =>
        /\ ~run.hadFile => run.port = DefaultPort
        /\ (run.prevPort # NoFlag /\ run.prevWrote)
              => run.port = run.prevPort
        /\ run.hadFile => run.port = TrimSpace(run.file)

\* C9 witness: a startup without the flag binds the port an earlier one
\* was given and wrote.
C9_Witness ==
    /\ variant = "md"
    /\ run.started /\ run.local /\ ~run.fatal
    /\ run.explicit = NoFlag
    /\ run.prevPort = OtherPort
    /\ run.prevWrote
    /\ run.port = OtherPort

\* The response to the request on connection c has been produced.
Responded(c) == conns[c].by # "none"

\* C10: for every request exactly one access-log entry is emitted, and it
\* is emitted before the renderer or the static primitive produces any of
\* the response: a response is only ever produced in a step that finds the
\* one entry already there and adds none.
C10_LogBeforeResponse ==
    /\ [](\A c \in Conns : Responded(c) => Len(conns[c].log) = 1)
    /\ [][\A c \in Conns :
            (~Responded(c) /\ Responded(c)') =>
                /\ Len(conns[c].log) = 1
                /\ conns[c].log' = conns[c].log]_vars

\* C10 witness: a request answered by the renderer with its one entry.
C10_Witness ==
    \E c \in Conns :
        /\ Answered(c)
        /\ conns[c].by = "renderer"
        /\ Len(conns[c].log) = 1
        /\ conns[c].log[1].what = "access"

\* Goroutine w is between f.mu.Lock() and the deferred Unlock.
InLock(w) == wr[w].pc \in {"check", "stamp", "emit", "unlock"}

\* Goroutine w has taken the throttle decision for an authentication line.
Decided(w) ==
    /\ wr[w].class = "auth"
    /\ wr[w].pc \in {"stamp", "emit", "unlock"}

\* C11: under any interleaving of concurrent writes of authentication lines
\* the test of the last-shown time and its update are atomic: at most one
\* goroutine is between Lock and Unlock, and it holds the lock; a line is
\* passed on exactly when none was passed on before or the last one was
\* passed on more than the throttle interval before the test; so any two
\* passed-on lines are more than the interval apart and of several lines in
\* one window exactly one is passed on.
C11_AtomicThrottle ==
    /\ \A v, w \in Writers : (InLock(v) /\ InLock(w)) => v = w
    /\ \A w \in Writers : InLock(w) => mu = w
    /\ \A w \in Writers :
          Decided(w) =>
            (wr[w].open <=> (~wr[w].seen \/ wr[w].at - wr[w].seenAt > Minute))
    /\ \A i, j \in 1..Len(shown) : i < j => shown[j] - shown[i] > Minute
    /\ (shown # <<>>) => (auth /\ lastAuth = shown[Len(shown)])

\* C11 witness: an authentication line that arrived while another goroutine
\* held the lock was suppressed inside the window of the one passed on.
C11_Witness ==
    \E w \in Writers :
        /\ wr[w].class = "auth"
        /\ wr[w].behind
        /\ wr[w].pc = "unlock"
        /\ ~wr[w].open
        /\ Len(shown) = 1
        /\ wr[w].at - shown[1] <= Minute

\* The request of the renderer specification has been answered in "md".
Handled == rs # NoResponse /\ variant = "md"

\* The renderer answered with the styled page.
Rendered == rs.by = "renderer" /\ rs.resp.status = 200 /\ rs.resp.kind = "html"

\* The path ends in ".md", in upper or lower case.
MdPath(path) ==
    /\ Len(path) >= 3
    /\ path[Len(path) - 2] = "."
    /\ path[Len(path) - 1] \in {"m", "M"}
    /\ path[Len(path)] \in {"d", "D"}

\* The name the renderer makes of the path is that of a file it can read.
Readable(path) == Resolve(CleanName(path)) \in Files

\* C12 (as stated): the renderer renders the styled page exactly when the
\* path's extension is Markdown, case-insensitively, and the raw flag is not
\* set; with the raw flag or a non-Markdown path it declines and the answer
\* is the static primitive's.
C12_RendersExactlyWhenMarkdown ==
    Handled =>
        /\ Rendered <=> (MdPath(rq.path) /\ ~rq.raw)
        /\ (rq.raw \/ ~MdPath(rq.path)) =>
              (rs.by = "static" /\ rs.resp = FileServer(rq.path))

\* C12 (amended): the renderer renders the styled page exactly when the
\* path's extension is Markdown, case-insensitively, the raw flag is not
\* set, the cleaned name does not start with "..", the file of that name
\* can be read and its conversion works; with the raw flag or a
\* non-Markdown path it declines without reading anything and the answer
\* is the static primitive's: the file's own bytes where the path, with no
\* slash at its end, names a file.
C12_RendersWhenReadable ==
    Handled =>
        /\ Rendered <=>
              /\ MdPath(rq.path)
              /\ ~rq.raw
              /\ ~HasPrefix(CleanName(rq.path), DotDot)
              /\ Readable(rq.path)
              /\ rq.conv = "ok"
        /\ Rendered => rs.resp.file = Resolve(CleanName(rq.path))
        /\ (rq.raw \/ ~MdPath(rq.path)) =>
              /\ rs.by = "static"
              /\ rs.reads = <<>>
              /\ rs.resp = FileServer(rq.path)
              /\ ((Root \o Clean(rq.path)) \in Files
                    /\ ~HasSuffix(rq.path, Slash)) =>
                    /\ rs.resp.status = 200
                    /\ rs.resp.kind = "raw"
                    /\ rs.resp.file = Root \o Clean(rq.path)

\* C12 witness: a file with an upper-case extension is rendered.
C12_Witness ==
    /\ Handled
    /\ Rendered
    /\ rq.path = <<"/", "X", ".", "M", "D">>
    /\ ~rq.raw

\* C13: a failed conversion is answered by the renderer with status 500 and
\* a text that holds nothing of the file, and the static primitive is not
\* asked; a failed read makes the renderer decline, so that the answer is
\* the static primitive's.
C13_ConversionAndReadFailure ==
    (Handled /\ MdPath(rq.path) /\ ~rq.raw
       /\ ~HasPrefix(CleanName(rq.path), DotDot)) =>
        /\ (Readable(rq.path) /\ rq.conv = "fail") =>
              /\ rs.by = "renderer"
              /\ rs.resp = [status |-> 500, kind |-> "text", file |-> <<>>]
        /\ ~Readable(rq.path) =>
              /\ rs.by = "static"
              /\ rs.resp = FileServer(rq.path)
              /\ rs.reads = <<Resolve(CleanName(rq.path))>>

\* C13 witness: a readable Markdown file whose conversion fails got the
\* renderer's 500.
C13_Witness ==
    /\ Handled
    /\ rq.path = PathDoc
    /\ rq.conv = "fail"
    /\ ~rq.raw
    /\ rs.by = "renderer"
    /\ rs.resp.status = 500

\* C17 (as stated): for every request path the file the renderer opens is
\* inside the served root, and a path that resolves outside the root is not
\* read but left to the static primitive.
C17_OpensOnlyInsideRoot ==
    Handled =>
        /\ \A i \in 1..Len(rs.reads) : InsideRoot(rs.reads[i])
        /\ ~InsideRoot(Resolve(CleanName(rq.path))) =>
              (rs.reads = <<>> /\ rs.by = "static")

\* A startup failure that the run of the revision and mode meets: the bind
\* of the listener, the creation of the state directory (in every mode of
\* "md", in Secured mode elsewhere), the provider's client in Secured mode.
StartupFails(v, isLocal, env) ==
    \/ env.bind = "fail"
    \/ env.mkdir = "fail" /\ (v = "md" \/ ~isLocal)
    \/ env.client = "fail" /\ ~isLocal

\* C14: a failure to bind the listener, to create the state directory or to
\* set up the identity provider ends the process before the server accepts
\* a request: every startup that meets one is fatal and leaves no listener,
\* and in a process that ended so no request was accepted, logged or
\* answered and no poller runs.
C14_FatalBeforeServing ==
    /\ pc = "boot" =>
          \A env \in Envs :
              StartupFails(variant, local, env) =>
                  \E b \in {Bootstrap(variant, local, explicit, portFile, env)} :
                      b.fatal /\ b.ln = "none" /\ ~b.poller
    /\ pc = "fatal" =>
          /\ ln = "none"
          /\ pollPc = "off"
          /\ \A c \in Conns : conns[c] = IdleConn
          /\ bootLog # <<>> /\ bootLog[Len(bootLog)].what = "fatal"
    /\ pc \in {"serving", "exited"} =>
          \A i \in 1..Len(bootLog) : bootLog[i].what # "fatal"
    /\ \A c \in Conns : conns[c] # IdleConn => ln # "none"

\* C14 witness: a Local startup whose bind failed ended the process.
C14_Witness ==
    /\ pc = "fatal"
    /\ local
    /\ Len(bootLog) = 1
    /\ bootLog[1].what = "fatal"
    /\ Contains(bootLog[1].msg, BindText)
    /\ \A c \in Conns : conns[c] = IdleConn

\* C19 (as stated): the shutdown notice and the readiness-timeout
\* diagnostic, logged through the filter, are passed on to the diagnostic
\* output stream.
C19_NoticesPassFilter ==
    /\ \A i \in 1..Len(sdLog) :
          sdLog[i].what = "shutdown" => sdLog[i].passed
    /\ \A i \in 1..Len(pollLog) :
          pollLog[i].what = "timeout" => pollLog[i].passed

\* logFilter.Write was called.
Called == last.class # "none"

\* The lines of revision v that match its allow-list: the startup
\* confirmations, the access-log lines of paths that start with a slash,
\* the bind failure and the lines with an error or failure mark.
AllowLines(v) ==
    AccessLinesOf(v, {PathDoc, Slash}) \cup AnnounceLines(v) \cup FailureLines

\* C15: every line that matches the allow-list is handed to the diagnostic
\* output stream exactly once by the call, with its bytes as they came,
\* whatever the throttle state is; what the stream writes of it is the
\* whole line when the stream's write succeeds.
C15_AllowListedOnceUnmodified ==
    (Called /\ last.p \in AllowLines(variant)) =>
        /\ last.class = "allow"
        /\ last.handed
        /\ last.ret = StderrWrite(last.p, last.o)
        /\ Len(last.ret.wrote) <= 1
        /\ last.o = "ok" => last.ret.wrote = <<last.p>>
        /\ \A i \in 1..Len(last.ret.wrote) :
              last.ret.wrote[i] = SubSeq(last.p, 1, Len(last.ret.wrote[i]))

\* C15 witness: with the throttle closed, a line with an error mark that
\* also holds the authentication text is written whole.
C15_Witness ==
    /\ Called
    /\ last.p = LogLine(ErrorAuthMsg)
    /\ auth /\ now - lastAuth <= Minute
    /\ last.o = "ok"
    /\ last.ret.wrote = <<last.p>>

\* C16: for a line that neither matches the allow-list nor is an
\* authentication line nothing is handed or written to the diagnostic
\* output stream, and the call returns the line's length and no error.
C16_OtherSuppressed ==
    (Called /\ (last.p \in PlainLines \/ ClassOf(variant, last.p) = "other"))
      =>
        /\ last.class = "other"
        /\ ~last.handed
        /\ last.ret.wrote = <<>>
        /\ last.ret.n = Len(last.p)
        /\ last.ret.err = "nil"

\* C16 witness: a line of the network library was dropped.
C16_Witness ==
    /\ Called
    /\ last.p = LogLine(NoiseMsg)
    /\ last.class = "other"
    /\ last.ret.wrote = <<>>

\* C18 (as stated): every access-log line the handler logs, in Local mode,
\* with a resolved identity and with a failed resolution, is classified as
\* allow-listed and handed to the diagnostic output stream.
C18_AccessLinesPass ==
    (Called /\ last.p \in AccessLines(variant)) =>
        (last.class = "allow" /\ last.handed)

\* C20: a step changes the throttle state only when it is a call that hands
\* an authentication line to the output stream, and that call sets the flag
\* and stamps the current time; calls with allow-listed lines (also those
\* that hold the authentication text), with suppressed authentication lines
\* and with other lines leave the flag and the timestamp as they were.  The
\* flag never goes back to false and the timestamp never decreases.
C20_ThrottleChangesOnlyWhenShown ==
    [][ /\ (auth' # auth \/ lastAuth' # lastAuth) =>
              /\ last'.class = "auth"
              /\ last'.handed
              /\ last'.t = now
              /\ auth'
              /\ lastAuth' = now
        /\ (last' # last /\ last'.class = "auth" /\ last'.handed) =>
              (auth' /\ lastAuth' = last'.t)
        /\ auth => auth'
        /\ lastAuth' >= lastAuth ]_vars

\* C20 witness: after an authentication line was shown and more than the
\* interval went by, a line with an error mark that holds the
\* authentication text was passed and the timestamp stayed where it was.
C20_Witness ==
    /\ last.p = LogLine(ErrorAuthMsg)
    /\ last.class = "allow"
    /\ last.handed
    /\ auth
    /\ last.prevShown
    /\ lastAuth = last.prevAt
    /\ last.t - lastAuth > Minute

\* The last run was a Local-mode startup that came as far as its listener.
ReachedListen ==
    /\ run.started
    /\ run.local
    /\ run.env.getwd = "ok"
    /\ variant = "md" => run.env.mkdir = "ok"

\* C21: a Local-mode startup whose listener bind fails terminates with no
\* listener and leaves the port file as it found it, so a later startup
\* without an explicit port listens where it would have listened before the
\* failed one, whatever port the failed one was given; a startup whose bind
\* succeeds and whose write of the port file fails is not fatal: it has its
\* listener on the chosen port and goes on to serve.
C21_BindFailureKeepsPort ==
    /\ (ReachedListen /\ run.env.bind = "fail") =>
          /\ run.fatal
          /\ run.ln = "none"
          /\ portFile = run.file
          /\ ListenPort(variant, NoFlag, portFile)
                = ListenPort(variant, NoFlag, run.file)
    /\ (ReachedListen /\ run.env.bind = "ok" /\ run.env.write # "ok") =>
          /\ ~run.fatal
          /\ run.ln = "plain"
          /\ run.port = ListenPort(variant, run.explicit, run.file)

\* C21 witness: a startup given an explicit port other than the remembered
\* one failed to bind, and the port file still holds the remembered port.
C21_Witness ==
    /\ variant = "md"
    /\ ReachedListen
    /\ run.env.bind = "fail"
    /\ run.explicit = OtherPort
    /\ run.file = DefaultPort
    /\ run.fatal
    /\ portFile = DefaultPort

====
